---- MODULE Spec2Model ----
(***************************************************************************)
(* ApiService (src/__PRACTICES__/api-service/api-service-example.ts):      *)
(* a base class wrapping an axios instance.  A call to get/post/put/delete *)
(* is an async function: the axios promise chain runs the request          *)
(* interceptor, the transport, the response interceptor, and the method    *)
(* resumes after its await inside its own try/catch.                       *)
(*                                                                         *)
(* JavaScript objects are records; a property an object does not have is a *)
(* field that is not in the record's DOMAIN (reading it gives undefined).  *)
(***************************************************************************)
EXTENDS Integers, Sequences, FiniteSets, TLC

\* Number of calls issued on the one client (they may overlap in time).
NumCalls == 2

Calls == 1..NumCalls

\* Number of calls made to the caching example services.
NumFetches == 3

Fetches == 1..NumFetches

\* Number of times the useUsers effect runs (mount, then service changes).
NumRuns == 3

Runs == 1..NumRuns

VARIABLES
    client,        \* the axios instance defaults built by the constructor
    localStorage,  \* the ambient key-value store holding (or not) 'token'
    calls,         \* per call: position in the async function and its values
    buttonStyles,  \* the module-level style table of the Button example
    modulePc,      \* how far the Button example's module has been evaluated
    rendered,      \* the props and the element of the latest Button render
    mapCache,      \* CachedUserApiService.cache, a Map as a set of <<key, value>>
    usersCache,    \* CachedUserService.cache, null or the cached list
    fetches,       \* per call of a cached service: its position and values
    hook,          \* the state cells of one mounted useUsers hook
    runs           \* per run of the hook's effect: the fetchUsers it started

apiVars == <<client, localStorage, calls>>
buttonVars == <<buttonStyles, modulePc, rendered>>
cacheVars == <<mapCache, usersCache, fetches>>
hookVars == <<hook, runs>>

\* the variables of the examples other than ApiService
exampleVars == <<buttonVars, cacheVars, hookVars>>

vars == <<apiVars, exampleVars>>

----------------------------------------------------------------------------
\* JavaScript values

\* null (a payload that is the JSON value null, or a missing payload)
Null == [jsnull |-> TRUE]

\* no value yet (a promise that has not settled)
Pending == [pending |-> TRUE]

\* a thrown value is an Error object: it has a name
IsError(v) == "name" \in DOMAIN v

\* what V8 puts in the TypeError raised by reading a property of null
NullReadMessage == "Cannot read properties of null (reading 'message')"

\* `obj.f || dflt` for a string-valued property: undefined and '' are falsy
OrDefault(obj, f, dflt) ==
    IF f \in DOMAIN obj /\ obj[f] # "" THEN obj[f] ELSE dflt

\* { ...a, ...b }
Merge(a, b) ==
    [k \in DOMAIN a \cup DOMAIN b |-> IF k \in DOMAIN b THEN b[k] ELSE a[k]]

----------------------------------------------------------------------------
\* class ApiError extends Error

\* new ApiError(status, message, data)
ApiErrorWithData(status, message, data) ==
    [name |-> "ApiError", status |-> status, message |-> message, data |-> data]

\* new ApiError(status, message): the optional data is left undefined
ApiError(status, message) ==
    [name |-> "ApiError", status |-> status, message |-> message]

\* the TypeError of `error.response.data.message` when data is null
TypeError == [name |-> "TypeError", message |-> NullReadMessage]

----------------------------------------------------------------------------
\* handleResponse as it would be if it wrapped the whole object it is given
handleResponse_wrapsResponse(response) ==
    IF "statusText" \in DOMAIN response
    THEN [data |-> response, status |-> response.status,
          message |-> response.statusText]
    ELSE [data |-> response, status |-> response.status]

\* ApiService.handleResponse: reads data, status and statusText of whatever
\* it is given; a missing statusText leaves message undefined.
handleResponse(response) ==
    IF "statusText" \in DOMAIN response
    THEN [data |-> response.data, status |-> response.status,
          message |-> response.statusText]
    ELSE [data |-> response.data, status |-> response.status]

\* handleError as it would be if it ignored the message of an error that
\* carries no response
handleError_fixedMessage(error) ==
    IF "response" \in DOMAIN error
    THEN IF error.response.data = Null
         THEN TypeError
         ELSE ApiErrorWithData(error.response.status,
                               OrDefault(error.response.data, "message", "Server Error"),
                               error.response.data)
    ELSE ApiError(500, "Network Error")

\* handleError as it would be if it rethrew an error that carries no response
handleError_rethrows(error) ==
    IF "response" \in DOMAIN error
    THEN IF error.response.data = Null
         THEN TypeError
         ELSE ApiErrorWithData(error.response.status,
                               OrDefault(error.response.data, "message", "Server Error"),
                               error.response.data)
    ELSE error

\* ApiService.handleError: the value it throws (it never returns).
handleError(error) ==
    IF "response" \in DOMAIN error
    THEN IF error.response.data = Null
         THEN TypeError
         ELSE ApiErrorWithData(error.response.status,
                               OrDefault(error.response.data, "message", "Server Error"),
                               error.response.data)
    ELSE ApiError(500, OrDefault(error, "message", "Network Error"))

\* number of ApiError objects one run of handleError constructs
Constructed(error) == IF handleError(error).name = "ApiError" THEN 1 ELSE 0

----------------------------------------------------------------------------
\* The environment: what callers pass and what the transport can report

\* headers a caller may pass in the optional AxiosRequestConfig
CallerHeaders ==
    { [Accept |-> "application/json"],
      [Accept |-> "application/json", Authorization |-> "Basic dXNlcg=="] }

\* contents of the ambient store: no token, an empty token, a token
Stores ==
    { [theme |-> "dark"],
      [theme |-> "dark", token |-> ""],
      [theme |-> "dark", token |-> "abc"] }

\* what localStorage.getItem throws where storage access is denied
StorageError == [name |-> "SecurityError", message |-> "The operation is insecure."]

OkStatuses == {200, 201}
ErrStatuses == {404, 422}

StatusText(s) ==
    CASE s = 200 -> "OK"
      [] s = 201 -> "Created"
      [] s = 404 -> "Not Found"
      [] OTHER   -> "Unprocessable Entity"

OkPayloads == { [users |-> <<[id |-> "1"]>>] }

\* error payloads: a message, an empty message, no message field, no payload
ErrPayloads == { [message |-> "invalid"], [message |-> ""], [code |-> "E_FAIL"], Null }

\* messages of a transport error that carries no response (timeout, network)
NoResponseMessages == { "timeout of 30000ms exceeded", "" }

AxiosResponse(s, d) == [status |-> s, statusText |-> StatusText(s), data |-> d]

\* axios rejects a status outside 2xx with an error that carries the response
AxiosErrorWithResponse(s, d) ==
    [name |-> "AxiosError",
     message |-> "Request failed with status code " \o ToString(s),
     response |-> AxiosResponse(s, d)]

AxiosErrorNoResponse(m) == [name |-> "AxiosError", message |-> m]

TransportResults ==
    { AxiosResponse(s, d) : s \in OkStatuses, d \in OkPayloads }
    \cup { AxiosErrorWithResponse(s, d) : s \in ErrStatuses, d \in ErrPayloads }
    \cup { AxiosErrorNoResponse(m) : m \in NoResponseMessages }

----------------------------------------------------------------------------
\* State

IdleCall ==
    [pc |-> "idle", config |-> Pending, raw |-> Pending, settled |-> Pending,
     returned |-> <<>>, raised |-> <<>>, sends |-> 0, built |-> 0]

----------------------------------------------------------------------------
\* The Button example (개방폐쇠원칙_good.tsx): its tables and its state before
\* the module is evaluated

\* const buttonStyles = { default, primary, secondary, danger, success }
InitialButtonStyles ==
    [default   |-> [padding |-> "8px 16px", borderRadius |-> "4px",
                    border |-> "1px solid #ddd"],
     primary   |-> [background |-> "blue", color |-> "white", border |-> "none"],
     secondary |-> [background |-> "gray", color |-> "black", border |-> "none"],
     danger    |-> [background |-> "red", color |-> "white", border |-> "none"],
     success   |-> [background |-> "green", color |-> "white", border |-> "none"]]

\* const sizeStyles: Record<ButtonSize, React.CSSProperties>
sizeStyles ==
    [small  |-> [padding |-> "4px 8px", fontSize |-> "12px"],
     medium |-> [padding |-> "8px 16px", fontSize |-> "14px"],
     large  |-> [padding |-> "12px 24px", fontSize |-> "16px"]]

\* nothing rendered yet
Unmounted == [mounted |-> FALSE]

ButtonInit ==
    /\ buttonStyles = InitialButtonStyles
    /\ modulePc = "declared"
    /\ rendered = Unmounted

----------------------------------------------------------------------------
\* The caching examples (part_002 CachedUserApiService, 의존성역전원칙_good.tsx
\* CachedUserService) before any call

\* `seen` is the cache as the call found it when it started
IdleFetch ==
    [pc |-> "idle", service |-> "none", seen |-> Pending, invoked |-> 0,
     returned |-> <<>>, raised |-> <<>>]

\* private cache: Map<string, User> = new Map();  private cache = null
CacheInit ==
    /\ mapCache = {}
    /\ usersCache = Null
    /\ fetches = [f \in Fetches |-> IdleFetch]

----------------------------------------------------------------------------
\* The useUsers hook (의존성역전원칙_good.tsx) at its first render

IdleRun == [pc |-> "idle", service |-> "none"]

\* useState<User[]>([]), useState(false), useState<Error | null>(null)
HookInit ==
    /\ hook = [users |-> <<>>, isLoading |-> FALSE, error |-> Null,
               userService |-> "api", effectService |-> "none"]
    /\ runs = [r \in Runs |-> IdleRun]

\* the ApiService example before any call, for the specifications of the
\* other examples
ApiInit ==
    /\ client = [baseURL |-> "https://api.example.com/users",
                 timeout |-> 30000,
                 headers |-> [ContentType |-> "application/json"]]
    /\ localStorage = [theme |-> "dark"]
    /\ calls = [c \in Calls |-> IdleCall]

\* constructor: axios.create({ baseURL, timeout: 30000, headers, ...config })
Init ==
    /\ client = [baseURL |-> "https://api.example.com/users",
                 timeout |-> 30000,
                 headers |-> [ContentType |-> "application/json"]]
    /\ localStorage \in Stores
    /\ calls = [c \in Calls |-> IdleCall]
    /\ ButtonInit
    /\ CacheInit
    /\ HookInit

\* the caller invokes an HTTP method: axios merges the instance defaults
\* with the caller's config and schedules the interceptor chain
Invoke(c, m, h) ==
    /\ calls[c].pc = "idle"
    /\ calls' = [calls EXCEPT ![c].pc = "created",
                              ![c].config = [method |-> m,
                                             headers |-> Merge(client.headers, h)]]
    /\ UNCHANGED <<client, localStorage, exampleVars>>

get(c)    == \E h \in CallerHeaders : Invoke(c, "get", h)
post(c)   == \E h \in CallerHeaders : Invoke(c, "post", h)
put(c)    == \E h \in CallerHeaders : Invoke(c, "put", h)
delete(c) == \E h \in CallerHeaders : Invoke(c, "delete", h)

\* the request hook as it would be without the `if (token)` test
requestHook_noTest(config, store) ==
    [config EXCEPT !.headers =
        Merge(config.headers,
              [Authorization |-> "Bearer " \o OrDefault(store, "token", "null")])]

\* the request interceptor's fulfilled handler, as a function of the config
\* and the store it reads
requestHook(config, store) ==
    IF "token" \in DOMAIN store /\ store.token # ""
    THEN [config EXCEPT !.headers =
             Merge(config.headers, [Authorization |-> "Bearer " \o store.token])]
    ELSE config

\* the request interceptor as it would be if the hook wrote the header into
\* the instance defaults instead of the request's own config
RequestInterceptor_writesDefaults(c) ==
    /\ calls[c].pc = "created"
    /\ calls' = [calls EXCEPT ![c].pc = "sent",
                              ![c].config = requestHook(calls[c].config, localStorage),
                              ![c].sends = calls[c].sends + 1]
    /\ client' = [client EXCEPT !.headers =
                     requestHook(calls[c].config, localStorage).headers]
    /\ UNCHANGED <<localStorage, exampleVars>>

\* the request interceptor runs and axios hands the request to the transport
RequestInterceptor(c) ==
    /\ calls[c].pc = "created"
    /\ calls' = [calls EXCEPT ![c].pc = "sent",
                              ![c].config = requestHook(calls[c].config, localStorage),
                              ![c].sends = calls[c].sends + 1]
    /\ UNCHANGED <<client, localStorage, exampleVars>>

\* localStorage.getItem throws: the chain rejects before the transport is
\* reached and the rejection travels to the response interceptor
RequestInterceptorThrows(c) ==
    /\ calls[c].pc = "created"
    /\ calls' = [calls EXCEPT ![c].pc = "raw", ![c].config = Pending,
                              ![c].raw = StorageError]
    /\ UNCHANGED <<client, localStorage, exampleVars>>

\* the transport completes: a response, an error response or no response.
\* The request has left the client; nothing after this point reads its config.
Transport(c) ==
    /\ calls[c].pc = "sent"
    /\ \E r \in TransportResults :
          calls' = [calls EXCEPT ![c].pc = "raw", ![c].config = Pending,
                                 ![c].raw = r]
    /\ UNCHANGED <<client, localStorage, exampleVars>>

\* the response interceptor as it would be if the client kept the latest
\* transport result in a field shared by all calls
ResponseInterceptor_sharedSlot(c) ==
    /\ calls[c].pc = "raw"
    /\ \E d \in Calls :
         /\ calls[d].raw # Pending
         /\ LET r == calls[d].raw IN
              calls' = [calls EXCEPT
                          ![c].pc = "awaited",
                          ![c].settled = IF IsError(r) THEN handleError(r)
                                                       ELSE handleResponse(r),
                          ![c].built = calls[c].built
                                       + (IF IsError(r) THEN Constructed(r) ELSE 0)]
    /\ UNCHANGED <<client, localStorage, exampleVars>>

\* the response interceptor: handleResponse on fulfilment, handleError on
\* rejection; its result settles the promise the method awaits
ResponseInterceptor(c) ==
    /\ calls[c].pc = "raw"
    /\ LET r == calls[c].raw IN
         calls' = [calls EXCEPT
                     ![c].pc = "awaited",
                     ![c].settled = IF IsError(r) THEN handleError(r)
                                                  ELSE handleResponse(r),
                     ![c].built = calls[c].built
                                  + (IF IsError(r) THEN Constructed(r) ELSE 0)]
    /\ UNCHANGED <<client, localStorage, exampleVars>>

\* the method's continuation as it would be with a catch block that swallows
\* the error
Resume_swallows(c) ==
    /\ calls[c].pc = "awaited"
    /\ LET v == calls[c].settled IN
         calls' = [calls EXCEPT
                     ![c].pc = "done",
                     ![c].returned = IF IsError(v) THEN <<>>
                                                   ELSE <<handleResponse(v)>>]
    /\ UNCHANGED <<client, localStorage, exampleVars>>

\* the method's continuation as it would be with a catch block that sends
\* the request again
Resume_retries(c) ==
    /\ calls[c].pc = "awaited"
    /\ LET v == calls[c].settled IN
         calls' = IF IsError(v)
                  THEN [calls EXCEPT ![c].pc = "sent", ![c].settled = Pending,
                                     ![c].sends = calls[c].sends + 1]
                  ELSE [calls EXCEPT ![c].pc = "done",
                                     ![c].returned = <<handleResponse(v)>>]
    /\ UNCHANGED <<client, localStorage, exampleVars>>

\* the method resumes after `await this.axios.<verb>(...)`: the try block
\* returns handleResponse(response), the catch block runs handleError(error)
Resume(c) ==
    /\ calls[c].pc = "awaited"
    /\ LET v == calls[c].settled IN
         calls' = [calls EXCEPT
                     ![c].pc = "done",
                     ![c].returned = IF IsError(v) THEN <<>>
                                                   ELSE <<handleResponse(v)>>,
                     ![c].raised = IF IsError(v) THEN <<handleError(v)>> ELSE <<>>,
                     ![c].built = calls[c].built
                                  + (IF IsError(v) THEN Constructed(v) ELSE 0)]
    /\ UNCHANGED <<client, localStorage, exampleVars>>

\* code outside the client (login, logout) rewrites the ambient store
StorageWrite ==
    /\ \E s \in Stores : s # localStorage /\ localStorage' = s
    /\ UNCHANGED <<client, calls, exampleVars>>

Next ==
    \/ \E c \in Calls : get(c)
    \/ \E c \in Calls : post(c)
    \/ \E c \in Calls : put(c)
    \/ \E c \in Calls : delete(c)
    \/ \E c \in Calls : RequestInterceptor(c)
    \/ \E c \in Calls : RequestInterceptorThrows(c)
    \/ \E c \in Calls : Transport(c)
    \/ \E c \in Calls : ResponseInterceptor(c)
    \/ \E c \in Calls : Resume(c)
    \/ StorageWrite

Spec == Init /\ [][Next]_vars

TypeOK ==
    /\ localStorage \in Stores
    /\ \A c \in Calls : calls[c].pc \in {"idle", "created", "sent", "raw", "awaited", "done"}

----------------------------------------------------------------------------
\* Vocabulary of the properties

Done(c) == calls[c].pc = "done"

\* the transport reported a status outside 2xx for call c
ErrorResponse(c) == IsError(calls[c].raw) /\ "response" \in DOMAIN calls[c].raw

\* the transport was invoked for call c and produced no response
NoResponse(c) ==
    /\ calls[c].sends = 1
    /\ IsError(calls[c].raw)
    /\ "response" \notin DOMAIN calls[c].raw

\* the transport reported a 2xx status for call c
Success(c) == calls[c].raw # Pending /\ ~IsError(calls[c].raw)

\* the call failed: the transport or the request hook produced an error
Failed(c) == IsError(calls[c].raw)

\* the one error call c raised to its caller
Raised(c) == calls[c].raised[1]

\* the one envelope call c returned to its caller
Returned(c) == calls[c].returned[1]

----------------------------------------------------------------------------
\* C1: for every call whose transport reports a non-2xx status S, the
\* ApiError that reaches the caller has status S.
C1_StatusReachesCaller ==
    \A c \in Calls :
        (Done(c) /\ ErrorResponse(c)) =>
            /\ Len(calls[c].raised) = 1
            /\ "status" \in DOMAIN Raised(c)
            /\ Raised(c).status = calls[c].raw.response.status

\* C2: for every successful call, the envelope returned to the caller has
\* the transport's status and the transport's payload, after handleResponse
\* has run in the response interceptor and again in the method.
C2_EnvelopeFaithful ==
    \A c \in Calls :
        (Done(c) /\ Success(c)) =>
            /\ Len(calls[c].returned) = 1
            /\ Returned(c).status = calls[c].raw.status
            /\ Returned(c).data = calls[c].raw.data

C2_Witness ==
    \E c \in Calls :
        /\ Done(c)
        /\ calls[c].raw = AxiosResponse(200, [users |-> <<[id |-> "1"]>>])
        /\ Len(calls[c].returned) = 1
        /\ Returned(c).status = 200
        /\ Returned(c).data = [users |-> <<[id |-> "1"]>>]

\* C3: for every call whose transport reports a non-2xx status, the message
\* of the error that reaches the caller is the payload's message field when
\* that field is present and non-empty, and 'Server Error' otherwise.
C3_MessageReachesCaller ==
    \A c \in Calls :
        (Done(c) /\ ErrorResponse(c)) =>
            /\ Len(calls[c].raised) = 1
            /\ Raised(c).message =
                 OrDefault(calls[c].raw.response.data, "message", "Server Error")

\* C4: for every call whose transport produces no response, the error that
\* reaches the caller is an ApiError with status 500 whose message is the
\* transport error's own message when non-empty, and 'Network Error' otherwise.
C4_NoResponseIs500 ==
    \A c \in Calls :
        (Done(c) /\ NoResponse(c)) =>
            /\ Len(calls[c].raised) = 1
            /\ Raised(c).name = "ApiError"
            /\ Raised(c).status = 500
            /\ Raised(c).message = IF calls[c].raw.message # ""
                                   THEN calls[c].raw.message
                                   ELSE "Network Error"

C4_Witness ==
    \E c, d \in Calls :
        /\ Done(c) /\ NoResponse(c) /\ calls[c].raw.message = ""
        /\ Raised(c) = ApiError(500, "Network Error")
        /\ Done(d) /\ NoResponse(d)
        /\ Raised(d) = ApiError(500, "timeout of 30000ms exceeded")

\* C5: when the request hook runs for a call, the request leaves with
\* Authorization 'Bearer <token>' if the store holds a non-empty token at that
\* moment, and otherwise with exactly the headers it had before the hook.
C5_BearerIffToken ==
    [][\A c \in Calls :
         (calls[c].pc = "created" /\ calls'[c].pc = "sent") =>
             IF "token" \in DOMAIN localStorage /\ localStorage.token # ""
             THEN /\ "Authorization" \in DOMAIN calls'[c].config.headers
                  /\ calls'[c].config.headers.Authorization
                       = "Bearer " \o localStorage.token
                  /\ \A k \in DOMAIN calls[c].config.headers \ {"Authorization"} :
                        /\ k \in DOMAIN calls'[c].config.headers
                        /\ calls'[c].config.headers[k] = calls[c].config.headers[k]
             ELSE calls'[c].config.headers = calls[c].config.headers]_vars

C5_Witness ==
    \E c, d \in Calls :
        /\ calls[c].pc = "sent"
        /\ "Authorization" \in DOMAIN calls[c].config.headers
        /\ calls[c].config.headers.Authorization = "Bearer abc"
        /\ calls[d].pc = "sent"
        /\ "Authorization" \notin DOMAIN calls[d].config.headers

\* C6: for every failed call exactly one ApiError is constructed during the
\* call, counting the response interceptor and the method's catch block.
C6_OneErrorConstructed ==
    \A c \in Calls : (Done(c) /\ Failed(c)) => calls[c].built = 1

\* C7: every failure (error response with any payload, no response, or a
\* failure of the request hook) ends with an ApiError raised to the caller,
\* never with an envelope and never with an error of another kind.
C7_FailureRaisesApiError ==
    \A c \in Calls :
        (Done(c) /\ Failed(c)) =>
            /\ calls[c].returned = <<>>
            /\ Len(calls[c].raised) = 1
            /\ Raised(c).name = "ApiError"

C7_Witness ==
    \E c, d \in Calls :
        /\ Done(c) /\ ErrorResponse(c) /\ calls[c].raw.response.data = Null
        /\ Raised(c).name = "ApiError"
        /\ Done(d) /\ calls[d].raw = StorageError
        /\ Raised(d).name = "ApiError"

\* C8: a call that has completed has exactly one outcome, an envelope or an
\* error, and a call that has not completed has none.
C8_ExactlyOneOutcome ==
    \A c \in Calls :
        /\ Done(c) => Len(calls[c].returned) + Len(calls[c].raised) = 1
        /\ ~Done(c) => (calls[c].returned = <<>> /\ calls[c].raised = <<>>)

C8_Witness ==
    \E c, d \in Calls :
        /\ Done(c) /\ Len(calls[c].returned) = 1 /\ calls[c].raised = <<>>
        /\ Done(d) /\ Len(calls[d].raised) = 1 /\ calls[d].returned = <<>>

\* C9: a call invokes the transport at most once whatever its outcome, and
\* every transport result and every envelope comes from one invocation.
C9_TransportAtMostOnce ==
    \A c \in Calls :
        /\ calls[c].sends <= 1
        /\ (Done(c) /\ calls[c].raw # StorageError) => calls[c].sends = 1
        /\ calls[c].returned # <<>> => calls[c].sends = 1

C9_Witness ==
    \E c, d \in Calls :
        /\ Done(c) /\ Failed(c) /\ calls[c].sends = 1
        /\ Done(d) /\ Success(d) /\ calls[d].sends = 1

\* the outcome of a call run alone on a raw settlement r: the response
\* interceptor, then the method's try/catch
AloneSettled(r) == IF IsError(r) THEN handleError(r) ELSE handleResponse(r)
AloneReturned(r) ==
    IF IsError(AloneSettled(r)) THEN <<>> ELSE <<handleResponse(AloneSettled(r))>>
AloneRaised(r) ==
    IF IsError(AloneSettled(r)) THEN <<handleError(AloneSettled(r))>> ELSE <<>>

\* C10: with calls overlapping on one client in any interleaving, each
\* call's outcome is the one it would have alone on its own transport result.
C10_CallsIndependent ==
    \A c \in Calls :
        Done(c) => /\ calls[c].returned = AloneReturned(calls[c].raw)
                   /\ calls[c].raised = AloneRaised(calls[c].raw)

C10_Witness ==
    \E c, d \in Calls :
        /\ c # d
        /\ Done(c) /\ Success(c) /\ Len(calls[c].returned) = 1
        /\ calls[d].pc = "awaited" /\ ErrorResponse(d)
        /\ IsError(calls[d].settled)

----------------------------------------------------------------------------
\* C11: no step of a get/post/put/delete call, successful or failed, changes
\* the client's configuration or writes the ambient token store.
C11_CallsLeaveConfigAndStore ==
    [][(calls' # calls) => (client' = client /\ localStorage' = localStorage)]_vars

C11_Witness ==
    \E c, d \in Calls :
        /\ Done(c) /\ Success(c)
        /\ Done(d) /\ Failed(d)
        /\ client = [baseURL |-> "https://api.example.com/users",
                     timeout |-> 30000,
                     headers |-> [ContentType |-> "application/json"]]
        /\ "token" \in DOMAIN localStorage

\* C14: on a successful call the message of the envelope returned to the
\* caller is the status text of the transport's response.
C14_MessageIsStatusText ==
    \A c \in Calls :
        (Done(c) /\ Success(c)) =>
            /\ Len(calls[c].returned) = 1
            /\ "message" \in DOMAIN Returned(c)
            /\ Returned(c).message = calls[c].raw.statusText

----------------------------------------------------------------------------
\* The Button example: module evaluation and render

ButtonVariants == {"default", "primary", "secondary", "danger", "success"}
ButtonSizes == {"small", "medium", "large"}

\* an optional prop is the empty set when omitted, a singleton otherwise
Opt(S) == {{}} \cup {{x} : x \in S}
OrElse(opt, dflt) == IF opt = {} THEN dflt ELSE CHOOSE x \in opt : TRUE

ButtonProps ==
    [variant : Opt(ButtonVariants), size : Opt(ButtonSizes),
     isLoading : Opt(BOOLEAN), className : Opt({"", "wide"})]

\* combinedStyles as it would be if the variant's styles were left out
combinedStyles_sizeOnly(table, variant, size) == sizeStyles[size]

\* const combinedStyles = { ...buttonStyles[variant], ...sizeStyles[size] }
combinedStyles(table, variant, size) == Merge(table[variant], sizeStyles[size])

\* the element Button returns for props, with the table as it is at the call
Button(table, props) ==
    LET variant   == OrElse(props.variant, "default")
        size      == OrElse(props.size, "medium")
        isLoading == OrElse(props.isLoading, FALSE)
    IN [style     |-> combinedStyles(table, variant, size),
        className |-> "button " \o OrElse(props.className, ""),
        disabled  |-> isLoading]

\* buttonStyles.ghost = { background: 'transparent', color: 'inherit' }
AddGhost ==
    /\ modulePc = "declared"
    /\ buttonStyles' = Merge(buttonStyles,
                             [ghost |-> [background |-> "transparent",
                                         color |-> "inherit"]])
    /\ modulePc' = "ghostAdded"
    /\ UNCHANGED <<rendered, apiVars, cacheVars, hookVars>>

\* buttonStyles.primary = { ...buttonStyles.primary, borderRadius: '8px' }
RestylePrimary ==
    /\ modulePc = "ghostAdded"
    /\ buttonStyles' = [buttonStyles EXCEPT
                          !.primary = Merge(buttonStyles.primary,
                                            [borderRadius |-> "8px"])]
    /\ modulePc' = "evaluated"
    /\ UNCHANGED <<rendered, apiVars, cacheVars, hookVars>>

\* render(<Button ...props />): runs once the module has been evaluated
Render ==
    /\ modulePc = "evaluated"
    /\ \E props \in ButtonProps :
          rendered' = [props |-> props, element |-> Button(buttonStyles, props)]
    /\ UNCHANGED <<buttonStyles, modulePc, apiVars, cacheVars, hookVars>>

ButtonNext == AddGhost \/ RestylePrimary \/ Render

ButtonSpecInit == ApiInit /\ ButtonInit /\ CacheInit /\ HookInit

ButtonSpec == ButtonSpecInit /\ [][ButtonNext]_vars

RenderedVariant == OrElse(rendered.props.variant, "default")
RenderedSize == OrElse(rendered.props.size, "medium")

----------------------------------------------------------------------------
\* The caching examples

\* what the underlying userApiService.fetchUser() resolves to
UserValues ==
    { [id |-> "1", name |-> "Test User"], [id |-> "2", name |-> "Other User"] }

\* what it rejects with (UserApiService.handleError builds an Error)
UnderlyingError == [name |-> "Error", message |-> "server error"]

\* data of a 2xx response to axios.get('/api/users'): a list, an empty list,
\* or a body that is the JSON value null
UsersData == { [list |-> <<[id |-> "1"]>>], [list |-> <<>>], Null }

\* Map.has, Map.get, Map.set on a Map held as a set of <<key, value>> pairs
MapHas(m, k) == \E p \in m : p[1] = k
MapGet(m, k) == (CHOOSE p \in m : p[1] = k)[2]
MapSet(m, k, v) == {p \in m : p[1] # k} \cup {<<k, v>>}

\* `if (this.cache)`: null is falsy, every array is truthy
Truthy(v) == v # Null

\* CachedUserApiService.fetchUser as it would be without the cache test
fetchUser_noTest(f) ==
    /\ fetches[f].pc = "idle"
    /\ fetches' = [fetches EXCEPT ![f].pc = "awaiting",
                                  ![f].service = "fetchUser",
                                  ![f].seen = mapCache,
                                  ![f].invoked = fetches[f].invoked + 1]
    /\ UNCHANGED <<mapCache, usersCache, apiVars, buttonVars, hookVars>>

\* CachedUserApiService.fetchUser up to its await: a cached user is returned
\* at once, otherwise the underlying service is called
fetchUser(f) ==
    /\ fetches[f].pc = "idle"
    /\ fetches' =
         IF MapHas(mapCache, "user")
         THEN [fetches EXCEPT ![f].pc = "done",
                              ![f].service = "fetchUser",
                              ![f].seen = mapCache,
                              ![f].returned = <<MapGet(mapCache, "user")>>]
         ELSE [fetches EXCEPT ![f].pc = "awaiting",
                              ![f].service = "fetchUser",
                              ![f].seen = mapCache,
                              ![f].invoked = fetches[f].invoked + 1]
    /\ UNCHANGED <<mapCache, usersCache, apiVars, buttonVars, hookVars>>

\* the underlying fetch resolves: cache.set('user', user); return user
FetchUserResolves(f) ==
    /\ fetches[f].pc = "awaiting" /\ fetches[f].service = "fetchUser"
    /\ \E user \in UserValues :
          /\ mapCache' = MapSet(mapCache, "user", user)
          /\ fetches' = [fetches EXCEPT ![f].pc = "done",
                                        ![f].returned = <<user>>]
    /\ UNCHANGED <<usersCache, apiVars, buttonVars, hookVars>>

\* the underlying fetch rejects: the await throws out of fetchUser
FetchUserRejects(f) ==
    /\ fetches[f].pc = "awaiting" /\ fetches[f].service = "fetchUser"
    /\ fetches' = [fetches EXCEPT ![f].pc = "done",
                                  ![f].raised = <<UnderlyingError>>]
    /\ UNCHANGED <<mapCache, usersCache, apiVars, buttonVars, hookVars>>

\* CachedUserService.getUsers up to its await
getUsers(f) ==
    /\ fetches[f].pc = "idle"
    /\ fetches' =
         IF Truthy(usersCache)
         THEN [fetches EXCEPT ![f].pc = "done",
                              ![f].service = "getUsers",
                              ![f].seen = usersCache,
                              ![f].returned = <<usersCache>>]
         ELSE [fetches EXCEPT ![f].pc = "awaiting",
                              ![f].service = "getUsers",
                              ![f].seen = usersCache,
                              ![f].invoked = fetches[f].invoked + 1]
    /\ UNCHANGED <<mapCache, usersCache, apiVars, buttonVars, hookVars>>

\* axios.get resolves: this.cache = users.data; return users.data
GetUsersResolves(f) ==
    /\ fetches[f].pc = "awaiting" /\ fetches[f].service = "getUsers"
    /\ \E data \in UsersData :
          /\ usersCache' = data
          /\ fetches' = [fetches EXCEPT ![f].pc = "done",
                                        ![f].returned = <<data>>]
    /\ UNCHANGED <<mapCache, apiVars, buttonVars, hookVars>>

\* axios.get rejects: the await throws out of getUsers
GetUsersRejects(f) ==
    /\ fetches[f].pc = "awaiting" /\ fetches[f].service = "getUsers"
    /\ \E m \in NoResponseMessages :
          fetches' = [fetches EXCEPT ![f].pc = "done",
                                     ![f].raised = <<AxiosErrorNoResponse(m)>>]
    /\ UNCHANGED <<mapCache, usersCache, apiVars, buttonVars, hookVars>>

CacheNext ==
    \/ \E f \in Fetches : fetchUser(f)
    \/ \E f \in Fetches : FetchUserResolves(f)
    \/ \E f \in Fetches : FetchUserRejects(f)
    \/ \E f \in Fetches : getUsers(f)
    \/ \E f \in Fetches : GetUsersResolves(f)
    \/ \E f \in Fetches : GetUsersRejects(f)

CacheSpecInit == ApiInit /\ ButtonInit /\ CacheInit /\ HookInit

CacheSpec == CacheSpecInit /\ [][CacheNext]_vars

\* the cache of call f's service was empty when f started
EmptyAtStart(f) ==
    IF fetches[f].service = "fetchUser"
    THEN ~MapHas(fetches[f].seen, "user")
    ELSE ~Truthy(fetches[f].seen)

\* the value the cache held when f started
SeenValue(f) ==
    IF fetches[f].service = "fetchUser"
    THEN MapGet(fetches[f].seen, "user")
    ELSE fetches[f].seen

\* in this step call f completes successfully a fetch of the underlying service
Fills(f) ==
    /\ fetches[f].pc = "awaiting"
    /\ fetches'[f].pc = "done"
    /\ Len(fetches'[f].returned) = 1

----------------------------------------------------------------------------
\* The useUsers hook

\* implementations of UserService that a parent may inject
UserServices == {"api", "mock", "fetch"}

\* what userService.getUsers() resolves to
UsersLists == { <<[id |-> "1", name |-> "Test User"]>>, <<>> }

\* what it rejects with: an Error, or a thrown value that is not an Error
Rejections == { [name |-> "Error", message |-> "Network Error"], [thrown |-> "boom"] }

\* err instanceof Error ? err : new Error('An error occurred')
AsError(err) ==
    IF IsError(err) THEN err ELSE [name |-> "Error", message |-> "An error occurred"]

\* the parent renders the component again with another userService
ChangeService ==
    /\ \E s \in UserServices \ {hook.userService} :
          hook' = [hook EXCEPT !.userService = s]
    /\ UNCHANGED <<runs, apiVars, buttonVars, cacheVars>>

\* useEffect(..., [userService]) runs after mount and after a render in which
\* userService changed; fetchUsers runs up to its await:
\* setIsLoading(true); setError(null); userService.getUsers()
RunEffect(r) ==
    /\ hook.effectService # hook.userService
    /\ runs[r].pc = "idle"
    /\ \A q \in Runs : q < r => runs[q].pc # "idle"
    /\ hook' = [hook EXCEPT !.isLoading = TRUE, !.error = Null,
                            !.effectService = hook.userService]
    /\ runs' = [runs EXCEPT ![r] = [pc |-> "awaiting", service |-> hook.userService]]
    /\ UNCHANGED <<apiVars, buttonVars, cacheVars>>

\* getUsers resolves: setUsers(data); finally setIsLoading(false)
FetchUsersResolves(r) ==
    /\ runs[r].pc = "awaiting"
    /\ \E data \in UsersLists :
          hook' = [hook EXCEPT !.users = data, !.isLoading = FALSE]
    /\ runs' = [runs EXCEPT ![r].pc = "settled"]
    /\ UNCHANGED <<apiVars, buttonVars, cacheVars>>

\* getUsers rejects: catch setError(...); finally setIsLoading(false)
FetchUsersRejects(r) ==
    /\ runs[r].pc = "awaiting"
    /\ \E err \in Rejections :
          hook' = [hook EXCEPT !.error = AsError(err), !.isLoading = FALSE]
    /\ runs' = [runs EXCEPT ![r].pc = "settled"]
    /\ UNCHANGED <<apiVars, buttonVars, cacheVars>>

HookNext ==
    \/ ChangeService
    \/ \E r \in Runs : RunEffect(r)
    \/ \E r \in Runs : FetchUsersResolves(r)
    \/ \E r \in Runs : FetchUsersRejects(r)

HookSpecInit == ApiInit /\ ButtonInit /\ CacheInit /\ HookInit

HookSpec == HookSpecInit /\ [][HookNext]_vars

\* C15: the loading flag is true exactly while a fetch started by the hook
\* has not settled, also when two fetches overlap.
C15_LoadingIffFetchInFlight ==
    hook.isLoading <=> (\E r \in Runs : runs[r].pc = "awaiting")

====
